---- MODULE Spec2Model ----
(***************************************************************************)
(* Cursor animator (display/cursor.rs) and quad batch renderer             *)
(* (renderer/quads.rs).                                                    *)
(*                                                                         *)
(* All arithmetic of the source is on f32.  An f32 value is modelled as a  *)
(* pair <<m, e>> standing for m * 2^e with 2^23 <= |m| < 2^24, or with    *)
(* |m| < 2^23 and e = -149 (a subnormal), or <<0, 0>> for zero; every      *)
(* operation rounds to nearest, ties to even, as IEEE-754 binary32 does.   *)
(* The sign of zero, infinities and NaN are not represented: NoOverflow    *)
(* states that no value of a checked run exceeds the finite range.         *)
(***************************************************************************)
EXTENDS Integers, Sequences, FiniteSets, TLC

\* ------------------------------------------------------------------ f32
\* Each operation is a function of its operand values, applied by an operator
\* of the same name: an operand expression is evaluated once per use of the
\* operation.

Abs(n) == IF n < 0 THEN -n ELSE n

Sgn(n) == IF n < 0 THEN -1 ELSE 1

\* The number of bits of n, for 0 <= n < 2^30.
BitLenFn[n \in Int] == CHOOSE k \in 0..30 : n < 2^k /\ (k = 0 \/ 2^(k - 1) <= n)

BitLen(n) == BitLenFn[n]

Zero == <<0, 0>>

F32Values == Int \X Int

F32Pairs == F32Values \X F32Values

\* The least exponent of the representation: binary32's subnormals are the
\* values m * 2^MinExp with |m| < 2^23.
MinExp == -126 - 23

\* Round the integer sig * 2^exp to 24 significant bits (fewer for a
\* subnormal result), ties to even.  The lowest bit of sig may be a sticky
\* bit when sig has at least 26 bits.  RoundBits takes <<sig, exp, L>> with L
\* the number of bits of |sig|.
RoundBits[p \in Int \X Int \X Int] ==
  LET sig == p[1]
      exp == p[2]
      L == p[3]
      a == Abs(sig)
      E == IF exp + L - 24 < MinExp THEN MinExp ELSE exp + L - 24
  IN IF E <= exp
     THEN <<Sgn(sig) * a * 2^(exp - E), E>>
     ELSE LET s == E - exp
          IN IF s > L THEN Zero
             ELSE LET q == a \div 2^s
                      r == a % 2^s
                      half == 2^(s - 1)
                      q2 == IF r > half \/ (r = half /\ q % 2 = 1) THEN q + 1 ELSE q
                  IN IF q2 = 0 THEN Zero
                     ELSE IF q2 = 2^24 THEN <<Sgn(sig) * 2^23, E + 1>>
                     ELSE <<Sgn(sig) * q2, E>>

RoundFn[p \in F32Values] ==
  IF p[1] = 0 THEN Zero ELSE RoundBits[<<p[1], p[2], BitLenFn[Abs(p[1])]>>]

F32Round(sig, exp) == RoundFn[<<sig, exp>>]

\* An integer of the source (a literal such as 1.0 or 255., or `as f32`).
F32Int(n) == F32Round(n, 0)

NegFn[a \in F32Values] == <<-a[1], a[2]>>

F32Neg(a) == NegFn[a]

AbsFn[a \in F32Values] == <<Abs(a[1]), a[2]>>

F32Abs(a) == AbsFn[a]

\* A non-zero value with its significand shifted up to 24 bits.
ShiftUp[p \in Int \X Int \X Int] == <<p[1] * 2^p[3], p[2] - p[3]>>

Normal24[a \in F32Values] == ShiftUp[<<a[1], a[2], 24 - BitLenFn[Abs(a[1])]>>]

\* a + b: the operand of smaller exponent is aligned under three guard bits,
\* bits shifted out collapse into a sticky bit.
AddOrderedFn[p \in F32Pairs] ==
  LET hi == p[1]
      lo == p[2]
      d == hi[2] - lo[2]
      A == hi[1] * 8
      b8 == Abs(lo[1]) * 8
      sh == IF d >= 28 THEN 0 ELSE b8 \div 2^d
      sticky == IF d >= 28 THEN TRUE ELSE b8 % 2^d # 0
      B == IF sticky /\ sh % 2 = 0 THEN sh + 1 ELSE sh
  IN F32Round(A + Sgn(lo[1]) * B, hi[2] - 3)

AddFn[p \in F32Pairs] ==
  LET a == p[1]
      b == p[2]
  IN IF a[1] = 0 THEN b
     ELSE IF b[1] = 0 THEN a
     ELSE IF a[2] >= b[2] THEN AddOrderedFn[<<a, b>>] ELSE AddOrderedFn[<<b, a>>]

F32Add(a, b) == AddFn[<<a, b>>]

F32Sub(a, b) == AddFn[<<a, NegFn[b]>>]

\* a * b: the 48-bit product of the significands in 12-bit limbs.  MulLimbs
\* takes the two operands with 24-bit significands.
MulLimbs[p \in F32Pairs] ==
  LET x == Abs(p[1][1])
      y == Abs(p[2][1])
      x1 == x \div 4096
      x0 == x % 4096
      y1 == y \div 4096
      y0 == y % 4096
      mid == x1 * y0 + x0 * y1
      losum == x0 * y0 + (mid % 4096) * 4096
      hiw == x1 * y1 + mid \div 4096 + losum \div 16777216
      low == losum % 16777216
      sig26 == hiw * 4 + low \div 4194304
      sticky == IF low % 4194304 # 0 THEN 1 ELSE 0
  IN F32Round(Sgn(p[1][1]) * Sgn(p[2][1]) * (sig26 * 2 + sticky), p[1][2] + p[2][2] + 21)

MulFn[p \in F32Pairs] ==
  IF p[1][1] = 0 \/ p[2][1] = 0 THEN Zero
  ELSE MulLimbs[<<Normal24[p[1]], Normal24[p[2]]>>]

F32Mul(a, b) == MulFn[<<a, b>>]

\* n steps of the long division of r by d: <<quotient bits, remainder>>.
DivBits[p \in Int \X Int \X Int \X Int] ==
  LET r == p[1]
      d == p[2]
      n == p[3]
      q == p[4]
  IN IF n = 0 THEN <<q, r>>
     ELSE IF r >= d THEN DivBits[<<2 * (r - d), d, n - 1, 2 * q + 1>>]
          ELSE DivBits[<<2 * r, d, n - 1, 2 * q>>]

\* a / b for b # 0: 27 quotient bits by long division, the remainder is
\* sticky.  DivRound takes <<sign, quotient and remainder, exponent>>.
DivRound[p \in Int \X (Int \X Int) \X Int] ==
  F32Round(p[1] * (p[2][1] * 2 + (IF p[2][2] # 0 THEN 1 ELSE 0)), p[3])

DivNormal[p \in F32Pairs] ==
  DivRound[<<Sgn(p[1][1]) * Sgn(p[2][1]),
             DivBits[<<Abs(p[1][1]), Abs(p[2][1]), 27, 0>>],
             p[1][2] - p[2][2] - 27>>]

DivFn[p \in F32Pairs] ==
  IF p[1][1] = 0 THEN Zero ELSE DivNormal[<<Normal24[p[1]], Normal24[p[2]]>>]

F32Div(a, b) == DivFn[<<a, b>>]

LtFn[p \in F32Pairs] ==
  LET a == p[1]
      b == p[2]
  IN IF a[1] = 0 THEN b[1] > 0
     ELSE IF b[1] = 0 THEN a[1] < 0
     ELSE IF (a[1] < 0) # (b[1] < 0) THEN a[1] < 0
     ELSE IF a[1] > 0
          THEN a[2] < b[2] \/ (a[2] = b[2] /\ a[1] < b[1])
          ELSE a[2] > b[2] \/ (a[2] = b[2] /\ a[1] < b[1])

F32Lt(a, b) == LtFn[<<a, b>>]

LeFn[p \in F32Pairs] == p[1] = p[2] \/ LtFn[p]

F32Le(a, b) == LeFn[<<a, b>>]

\* f32::max, f32::min and f32::clamp on numbers.
MaxFn[p \in F32Pairs] == IF LtFn[p] THEN p[2] ELSE p[1]

F32Max(a, b) == MaxFn[<<a, b>>]

MinFn[p \in F32Pairs] == IF LtFn[<<p[2], p[1]>>] THEN p[2] ELSE p[1]

F32Min(a, b) == MinFn[<<a, b>>]

F32Clamp(v, lo, hi) == MinFn[<<MaxFn[<<v, lo>>], hi>>]

\* f32::round: to the nearest integer, halves away from zero.
RoundIntFn[a \in F32Values] ==
  IF a[2] >= 0 THEN a
  ELSE IF a[2] <= -25 THEN Zero
  ELSE LET s == -a[2]
           m == Abs(a[1])
           q == m \div 2^s
           n == IF m % 2^s >= 2^(s - 1) THEN q + 1 ELSE q
       IN F32Int(Sgn(a[1]) * n)

F32RoundInt(a) == RoundIntFn[a]

\* `as u8`: truncation toward zero, saturating at 0 and 255.
AsU8Fn[a \in F32Values] ==
  IF a[1] <= 0 THEN 0
  ELSE IF a[2] >= 0 THEN 255
  ELSE IF a[2] <= -24 THEN 0
  ELSE LET n == a[1] \div 2^(-a[2]) IN IF n > 255 THEN 255 ELSE n

F32AsU8(a) == AsU8Fn[a]

\* f32::floor.
FloorFn[a \in F32Values] ==
  IF a[2] >= 0 THEN a
  ELSE IF a[2] <= -24 THEN (IF a[1] < 0 THEN F32Int(-1) ELSE Zero)
  ELSE LET s == -a[2]
           m == Abs(a[1])
           q == m \div 2^s
           exact == m % 2^s = 0
       IN IF a[1] > 0 \/ exact THEN F32Int(Sgn(a[1]) * q) ELSE F32Int(-(q + 1))

F32Floor(a) == FloorFn[a]

\* The f32 literals of the source.
F090 == <<15099494, -24>>

F01 == <<13421773, -27>>

F02 == <<13421773, -26>>

F1 == F32Int(1)

F2 == F32Int(2)

F255 == F32Int(255)

F05 == <<8388608, -24>>

\* ------------------------------------------------------- model inputs

\* Frames of cursor movement explored from the zero-initialised animator.
MaxFrames == 2

\* Frames of cursor movement before the cursor comes to rest.
MaxHoldMoves == 2

\* Frames explored while the cursor jumps between two places.
MaxJumps == 12

\* Longest quad list handed to one draw call.
MaxQuads == 2

\* SizeInfo: cell size, padding and viewport size in pixels.
SizeInfoOf(cw, ch, px, py, w, h) ==
  [cell_width |-> F32Int(cw), cell_height |-> F32Int(ch),
   padding_x |-> F32Int(px), padding_y |-> F32Int(py),
   width |-> F32Int(w), height |-> F32Int(h)]

\* 80 x 24 cells of 8 x 16 pixels with padding (2, 4).
SizeA == SizeInfoOf(8, 16, 2, 4, 644, 392)

\* 25 x 30 cells of 32 x 20 pixels, no padding: the viewport is 800 x 600.
SizeB == SizeInfoOf(32, 20, 0, 0, 800, 600)

\* 80 x 24 cells of 8 x 16 pixels, no padding.
SizeC == SizeInfoOf(8, 16, 0, 0, 640, 384)

\* One column of 24 cells of 8 x 16 pixels, no padding.
SizeNarrow == SizeInfoOf(8, 16, 0, 0, 8, 384)

SizeInfos == {SizeA, SizeB}

Shapes == {"Beam", "Underline", "Block"}

\* The cursor thickness ratio 0.15 as f32 (0.2 is F02).
F015 == <<10066330, -26>>

\* Cursor descriptors (shape, point, is_wide, thickness) and the size info
\* of the frame: the arguments of CursorRects::update.
MkArgs(shape, si, thickness, col, line, wide) ==
  [shape |-> shape, size_info |-> si, thickness |-> thickness,
   point |-> [column |-> col, line |-> line], is_wide |-> wide]

NoArgs == MkArgs("None", SizeA, F02, 0, 0, FALSE)

MoveArgs ==
  {MkArgs(sh, si, p[3], p[1], p[2], w) :
     sh \in Shapes, si \in SizeInfos, p \in {<<1, 1, F02>>, <<13, 0, F015>>}, w \in BOOLEAN}

HoldArgs ==
  {MkArgs("Beam", SizeA, F02, 1, 1, FALSE), MkArgs("Underline", SizeA, F02, 1, 1, FALSE),
   MkArgs("Block", SizeB, F015, 13, 0, TRUE),
   MkArgs("Beam", SizeC, F02, 13, 13, FALSE)}

JumpArgs ==
  {MkArgs("Underline", SizeNarrow, F02, 0, 0, FALSE),
   MkArgs("Block", SizeNarrow, F02, 0, 23, FALSE)}

\* ------------------------------------------------------ display/cursor.rs

QuadPoint(x, y) == [x |-> x, y |-> y]

\* The point of integer pixel coordinates (x, y).
Pt(x, y) == QuadPoint(F32Int(x), F32Int(y))

Corners == 1..4

\* fn beam(x, y, height, thickness)
beam(x, y, height, thickness) ==
  <<QuadPoint(x, y),
    QuadPoint(F32Add(x, thickness), y),
    QuadPoint(F32Add(x, thickness), F32Add(y, height)),
    QuadPoint(x, F32Add(y, height))>>

\* An underline drawn from the top edge of the cell.
underlineAtTop(x, y0, width, height, thickness) ==
  <<QuadPoint(x, y0),
    QuadPoint(F32Add(x, width), y0),
    QuadPoint(F32Add(x, width), F32Add(y0, thickness)),
    QuadPoint(x, F32Add(y0, thickness))>>

\* fn underline(x, y, width, height, thickness)
underline(x, y0, width, height, thickness) ==
  LET y == F32Sub(F32Add(y0, height), thickness)
  IN <<QuadPoint(x, y),
       QuadPoint(F32Add(x, width), y),
       QuadPoint(F32Add(x, width), F32Add(y, thickness)),
       QuadPoint(x, F32Add(y, thickness))>>

\* let thickness = (thickness * width).round().max(1.);
CursorThickness(thickness, width) ==
  F32Max(F32RoundInt(F32Mul(thickness, width)), F1)

\* A bar of the cell's height wide and the cell's width tall.
SwappedShape(x, y, width, height) == beam(x, y, width, height)

\* The `_` arm of the match: every shape other than Beam and Underline.
OtherShape(x, y, width, height) == beam(x, y, height, width)

\* The local `target` of CursorRects::update.
TargetQuad(a) ==
  LET si == a.size_info
      x == F32Add(F32Mul(F32Int(a.point.column), si.cell_width), si.padding_x)
      y == F32Add(F32Mul(F32Int(a.point.line), si.cell_height), si.padding_y)
      height == si.cell_height
      thickness == CursorThickness(a.thickness, si.cell_width)
      width == IF a.is_wide THEN F32Mul(si.cell_width, F2) ELSE si.cell_width
  IN CASE a.shape = "Beam" -> beam(x, y, height, thickness)
       [] a.shape = "Underline" -> underline(x, y, width, height, thickness)
       [] OTHER -> OtherShape(x, y, width, height)

\* A clamp with the upper limit only.
ClampVelNoFloor(v) == F32Min(v, F1)

\* A clamp whose two limits are both 1.0.
ClampVelPinned(v) == F32Clamp(v, F1, F1)

\* self.vels[i] = self.vels[i].clamp(0.2, 1.0)
ClampVel(v) == F32Clamp(v, F02, F1)

\* self.vels[i] *= 0.90; self.vels[i] += (dist_sq / dist_diag_sq) * 0.1; clamp
NextVel(vel, pos, tgt, si) ==
  LET diffx == F32Sub(tgt.x, pos.x)
      diffy == F32Sub(tgt.y, pos.y)
      dist_sq == F32Add(F32Mul(diffx, diffx), F32Mul(diffy, diffy))
      dist_diag_sq == F32Add(F32Mul(si.width, si.width), F32Mul(si.height, si.height))
  IN ClampVel(F32Add(F32Mul(vel, F090), F32Mul(F32Div(dist_sq, dist_diag_sq), F01)))

\* positions[i].c *= 1.0 - vels[i]; positions[i].c += target[i].c * vels[i]
Lerp(p, t, v) == F32Add(F32Mul(p, F32Sub(F1, v)), F32Mul(t, v))

\* A step that moves the x coordinate only.
NextPosXOnly(pos, tgt, v) == QuadPoint(Lerp(pos.x, tgt.x, v), pos.y)

NextPos(pos, tgt, v) == QuadPoint(Lerp(pos.x, tgt.x, v), Lerp(pos.y, tgt.y, v))

\* One pass of the loop body for corner i: the new velocity, then the new
\* position computed with it.
UpdateCorner(vel, pos, tgt, si) ==
  CHOOSE c \in {[vel |-> v, pos |-> NextPos(pos, tgt, v)] : v \in {NextVel(vel, pos, tgt, si)}} :
    TRUE

\* CursorRects::update on the state d = [vels, positions] with arguments a.
Update(d, a) ==
  CHOOSE r \in
    {[vels |-> <<c[1].vel, c[2].vel, c[3].vel, c[4].vel>>,
      positions |-> <<c[1].pos, c[2].pos, c[3].pos, c[4].pos>>] :
       c \in {[i \in Corners |->
                 UpdateCorner(d.vels[i], d.positions[i], tgt[i], a.size_info)] :
                   tgt \in {TargetQuad(a)}}} : TRUE

\* CursorRects::default(): positions and velocities all zero.
ZeroData ==
  [vels |-> <<Zero, Zero, Zero, Zero>>,
   positions |-> <<QuadPoint(Zero, Zero), QuadPoint(Zero, Zero),
                   QuadPoint(Zero, Zero), QuadPoint(Zero, Zero)>>]

\* ------------------------------------------------------ renderer/quads.rs

Rgb(r, g, b) == [r |-> r, g |-> g, b |-> b]

\* RenderQuad::new
RenderQuad(points, color, alpha) == [points |-> points, color |-> color, alpha |-> alpha]

Vertex(x, y, r, g, b, a) == [x |-> x, y |-> y, r |-> r, g |-> g, b |-> b, a |-> a]

\* mem::size_of::<Vertex>(): two f32 and four u8.
VertexSize == 12

\* The names GenVertexArrays and GenBuffers returned, and the program's id.
VaoName == 1

VboName == 2

ProgramId == 3

\* for i in [0, 1, 2, 0, 3, 2], on corners numbered from 1.
TriangleIndices == <<1, 2, 3, 1, 4, 3>>

\* let x = p.x / half_width - 1.0;
NdcX(px, half_width) == F32Sub(F32Div(px, half_width), F1)

\* let y = -p.y / half_height + 1.0;
NdcY(py, half_height) == F32Add(F32Div(F32Neg(py), half_height), F1)

\* An alpha byte rounded to nearest.
PackAlphaRounded(alpha) == F32AsU8(F32RoundInt(F32Mul(alpha, F255)))

\* let a = (quad.alpha * 255.) as u8;
PackAlpha(alpha) == F32AsU8(F32Mul(alpha, F255))

\* QuadRenderer::add_quad: the six vertices pushed for one quad.
QuadVertices(half_width, half_height, quad) ==
  [k \in 1..6 |->
     LET p == quad.points[TriangleIndices[k]]
     IN Vertex(NdcX(p.x, half_width), NdcY(p.y, half_height),
               quad.color.r, quad.color.g, quad.color.b, PackAlpha(quad.alpha))]

add_quad(vs, half_width, half_height, quad) ==
  vs \o QuadVertices(half_width, half_height, quad)

\* A vertex list that is not cleared.
KeptVertices(vs) == vs

\* self.vertices.clear()
Cleared(vs) == <<>>

\* for quad in &quads { Self::add_quad(...) }
RECURSIVE AddQuads(_, _, _, _)
AddQuads(vs, half_width, half_height, quads) ==
  IF quads = <<>> THEN vs
  ELSE AddQuads(add_quad(vs, half_width, half_height, Head(quads)),
                half_width, half_height, Tail(quads))

\* The vertex list draw builds: lines 203 to 210.
BuildVertices(vs, size_info, quads) ==
  AddQuads(Cleared(vs), F32Div(size_info.width, F2), F32Div(size_info.height, F2), quads)

\* The uniform slots in the order update_uniforms binds them, each with the
\* value it is given.
UniformValues(size_info, metrics) ==
  LET position == F32Abs(F32Mul(F05, metrics.descent))
      underline_position ==
        F32Sub(F32Abs(metrics.descent), F32Abs(metrics.underline_position))
      viewport_height == F32Sub(size_info.height, size_info.padding_y)
      padding_y ==
        F32Sub(viewport_height,
               F32Mul(F32Floor(F32Div(viewport_height, size_info.cell_height)),
                      size_info.cell_height))
  IN <<<<"cellWidth", size_info.cell_width>>,
       <<"cellHeight", size_info.cell_height>>,
       <<"paddingY", padding_y>>,
       <<"paddingX", size_info.padding_x>>,
       <<"underlinePosition", underline_position>>,
       <<"underlineThickness", metrics.underline_thickness>>,
       <<"undercurlPosition", position>>>>

UniformNames ==
  {"cellWidth", "cellHeight", "paddingY", "paddingX", "underlinePosition",
   "underlineThickness", "undercurlPosition"}

\* QuadShaderProgram::update_uniforms: one Uniform1f for each slot the shader
\* exposes; a missing slot is skipped.
update_uniforms(slots, size_info, metrics) ==
  LET all == UniformValues(size_info, metrics)
  IN [k \in 1..Len(SelectSeq(all, LAMBDA u : u[1] \in slots)) |->
        LET u == SelectSeq(all, LAMBDA w : w[1] \in slots)[k]
        IN <<"Uniform1f", u[1], u[2]>>]

\* The GL calls of the block guarded by !vertices.is_empty(): lines 217 to 237.
DrawBatch(slots, vs, size_info, metrics) ==
  <<<<"UseProgram", ProgramId>>>>
  \o update_uniforms(slots, size_info, metrics)
  \o <<<<"BufferData", "ARRAY_BUFFER", Len(vs) * VertexSize, vs, "STREAM_DRAW">>,
       <<"DrawArrays", "TRIANGLES", 0, Len(vs)>>,
       <<"UseProgram", 0>>,
       <<"BindBuffer", "ARRAY_BUFFER", 0>>,
       <<"BindVertexArray", 0>>>>

\* The batch issued whether or not there are vertices.
UnguardedBatch(slots, vs, size_info, metrics) == DrawBatch(slots, vs, size_info, metrics)

\* if !vertices.is_empty() { ... }
GuardedBatch(slots, vs, size_info, metrics) ==
  IF vs # <<>> THEN DrawBatch(slots, vs, size_info, metrics) ELSE <<>>

\* The GL calls of QuadRenderer::draw, in order, for the vertex list vs it built.
DrawCalls(slots, vs, size_info, metrics) ==
  <<<<"BindVertexArray", VaoName>>, <<"BindBuffer", "ARRAY_BUFFER", VboName>>>>
  \o GuardedBatch(slots, vs, size_info, metrics)

\* The GL bindings after the calls cs, from the bindings g.
RECURSIVE AfterCalls(_, _)
AfterCalls(g, cs) ==
  IF cs = <<>> THEN g
  ELSE LET c == Head(cs)
           g2 == CASE c[1] = "BindVertexArray" -> [g EXCEPT !.vertex_array = c[2]]
                   [] c[1] = "BindBuffer" -> [g EXCEPT !.array_buffer = c[3]]
                   [] c[1] = "UseProgram" -> [g EXCEPT !.program = c[2]]
                   [] OTHER -> g
       IN AfterCalls(g2, Tail(cs))

\* QuadRenderer::new ends with every binding reset.
Unbound == [vertex_array |-> 0, array_buffer |-> 0, program |-> 0]

\* The quads of a frame: a full-window visual bell, the cursor as a beam, as
\* an underline and in mid-flight, and a faint rectangle.
F025 == <<8388608, -25>>

BellQuad ==
  RenderQuad(<<Pt(0, 0), Pt(800, 0), Pt(800, 600), Pt(0, 600)>>, Rgb(255, 255, 255), F05)

BeamQuad ==
  RenderQuad(<<Pt(10, 20), Pt(12, 20), Pt(12, 36), Pt(10, 36)>>, Rgb(10, 200, 30), F1)

UnderlineQuad ==
  RenderQuad(<<Pt(10, 34), Pt(18, 34), Pt(18, 36), Pt(10, 36)>>, Rgb(0, 0, 0), Zero)

FlightQuad ==
  RenderQuad(Update(ZeroData, MkArgs("Beam", SizeA, F02, 1, 1, FALSE)).positions,
             Rgb(1, 2, 3), F025)

FaintQuad ==
  RenderQuad(<<Pt(0, 0), Pt(8, 0), Pt(8, 16), Pt(0, 16)>>, Rgb(128, 64, 32), F01)

RenderQuads == {BellQuad, BeamQuad, UnderlineQuad, FlightQuad, FaintQuad}

RECURSIVE SeqsUpTo(_, _)
SeqsUpTo(S, n) ==
  IF n = 0 THEN {<<>>}
  ELSE LET shorter == SeqsUpTo(S, n - 1)
       IN shorter \cup {Append(q, e) : q \in shorter, e \in S}

QuadLists == SeqsUpTo(RenderQuads, MaxQuads)

\* crossfont::Metrics: the fields update_uniforms reads.
MetricsOf(descent, underline_position, underline_thickness) ==
  [descent |-> F32Int(descent), underline_position |-> F32Int(underline_position),
   underline_thickness |-> F32Int(underline_thickness)]

FontMetrics == {MetricsOf(-4, -2, 1)}

\* The slots get_uniform_location finds: all of them, or all but the
\* undercurl position, or none.
UniformSlots == {UniformNames, UniformNames \ {"undercurlPosition"}, {}}

DrawSizes == {SizeB, SizeA}

NoDraw == [size_info |-> SizeA, quads |-> <<>>, called |-> FALSE]

VARIABLES
  vels,       \* CursorRects.vels
  positions,  \* CursorRects.positions
  args,       \* the arguments of the latest update call
  before,     \* vels and positions on entry to the latest update call
  frame,      \* the number of frames in which the cursor or the window changed
  held,       \* the cursor has come to rest: every later frame repeats args
  uniforms,   \* QuadShaderProgram: the uniform slots the linked shader exposes
  vertices,   \* QuadRenderer.vertices
  gl,         \* the GL bindings: vertex array, array buffer, program in use
  calls,      \* the GL calls of the latest draw call, in order
  drawn       \* the arguments of the latest draw call

cursorVars == <<vels, positions, args, before, frame, held>>

drawVars == <<uniforms, vertices, gl, calls, drawn>>

vars == <<cursorVars, drawVars>>

\* The cursor's colour; the animator does not read it.
CursorColor == Rgb(255, 255, 255)

\* RenderableCursor::quads returns RenderQuad::new(self.data.positions, self.color(), 1.0).
CursorQuad == RenderQuad(positions, CursorColor, F1)

\* The local `target` of the latest update call.
target == TargetQuad(args)

Updated == frame > 0

\* The local `dist_sq` of corner i as the next update call would compute it
\* for the target of the latest one.
DistSq(i) ==
  LET diffx == F32Sub(target[i].x, positions[i].x)
      diffy == F32Sub(target[i].y, positions[i].y)
  IN F32Add(F32Mul(diffx, diffx), F32Mul(diffy, diffy))

InitCursor ==
  /\ vels = ZeroData.vels
  /\ positions = ZeroData.positions
  /\ args = NoArgs
  /\ before = ZeroData
  /\ frame = 0
  /\ held = FALSE

\* QuadRenderer::new: the shader is linked, the buffers allocated, nothing is
\* left bound and the vertex list is empty.
InitDraw ==
  /\ uniforms \in UniformSlots
  /\ vertices = <<>>
  /\ gl = Unbound
  /\ calls = <<>>
  /\ drawn = NoDraw

Init == InitCursor /\ InitDraw

\* The same with a shader that exposes every uniform slot.
InitFull == Init /\ uniforms = UniformNames

\* RenderableCursor::quads: one call of update with the frame's arguments.
DoUpdate(a) ==
  \E d \in {Update([vels |-> vels, positions |-> positions], a)} :
     /\ vels' = d.vels
     /\ positions' = d.positions
     /\ args' = a
     /\ before' = [vels |-> vels, positions |-> positions]
     /\ UNCHANGED drawVars

\* A frame in which the cursor, or the window, may have changed.
Move ==
  /\ frame < MaxFrames
  /\ \E a \in MoveArgs : DoUpdate(a)
  /\ frame' = frame + 1
  /\ UNCHANGED held

Next == Move

Spec == InitFull /\ [][Next]_vars

\* The cursor moves for a few frames and then rests: every frame after that
\* calls update with the arguments of the frame before.
HoldMove ==
  /\ ~held
  /\ frame < MaxHoldMoves
  /\ \E a \in HoldArgs : DoUpdate(a)
  /\ frame' = frame + 1
  /\ UNCHANGED held

Hold ==
  /\ frame > 0
  /\ DoUpdate(args)
  /\ held' = TRUE
  /\ UNCHANGED frame

NextHold == HoldMove \/ Hold

\* The renderer draws frame after frame: a resting cursor keeps being updated.
SpecHold == InitFull /\ [][NextHold]_vars /\ WF_vars(Hold)

\* The cursor jumps between the first and the last line of a one-column window.
Jump ==
  /\ frame < MaxJumps
  /\ \E a \in JumpArgs : DoUpdate(a)
  /\ frame' = frame + 1
  /\ UNCHANGED held

NextJump == Jump

SpecJump == InitFull /\ [][NextJump]_vars

\* QuadRenderer::draw(size_info, metrics, quads).
Draw ==
  \E si \in DrawSizes, m \in FontMetrics, qs \in QuadLists :
    \E vs \in {BuildVertices(vertices, si, qs)} :
      \E cs \in {DrawCalls(uniforms, vs, si, m)} :
        /\ vertices' = vs
        /\ calls' = cs
        /\ gl' = AfterCalls(gl, cs)
        /\ drawn' = [size_info |-> si, quads |-> qs, called |-> TRUE]
        /\ UNCHANGED <<uniforms, cursorVars>>

NextDraw == Draw

SpecDraw == Init /\ [][NextDraw]_vars

\* No value of the animator exceeds the finite range of f32.
ExponentOk(f) == f[2] + 23 <= 127

NoOverflow ==
  \A i \in Corners :
    /\ ExponentOk(vels[i])
    /\ ExponentOk(positions[i].x)
    /\ ExponentOk(positions[i].y)

\* ---------------------------------------------------------------- claims

\* The integer an integral f32 stands for.
IntOf(f) == IF f[2] >= 0 THEN f[1] * 2^f[2] ELSE f[1] \div 2^(-f[2])

\* C1: after every update call, from the zero-initialised animator, each of
\* the four velocities lies in [0.20, 1.00].
C1_VelocitiesClamped ==
  Updated => \A i \in Corners : F32Le(F02, vels[i]) /\ F32Le(vels[i], F1)

\* Witness of C1: an update has run and a velocity sits strictly inside the
\* interval, so that the energy term, not only the floor, decided it.
C1_Witness ==
  Updated /\ \E i \in Corners : F32Lt(F02, vels[i]) /\ F32Lt(vels[i], F1)

\* The frame's cell origin and cell metrics as integers of pixels.
OriginX == args.point.column * IntOf(args.size_info.cell_width) + IntOf(args.size_info.padding_x)

OriginY == args.point.line * IntOf(args.size_info.cell_height) + IntOf(args.size_info.padding_y)

CellW == IntOf(args.size_info.cell_width)

CellH == IntOf(args.size_info.cell_height)

EffectiveW == IF args.is_wide THEN 2 * CellW ELSE CellW

\* max(1, round(thicknessRatio * cellW)) on the exact product, halves away
\* from zero; the ratio is args.thickness = m * 2^e with e < 0.
ThicknessPx ==
  LET s == -args.thickness[2]
      n == (args.thickness[1] * CellW + 2^(s - 1)) \div 2^s
  IN IF n < 1 THEN 1 ELSE n

ExampleArgs(shape) == MkArgs(shape, SizeA, F02, 1, 1, FALSE)

\* C4: for Beam and Underline the target quad is, in the order top-left,
\* top-right, bottom-right, bottom-left, with t = max(1, round(ratio * cellW))
\* from the un-doubled cell width and w the (doubled when wide) cell width:
\* Beam (x,y),(x+t,y),(x+t,y+cellH),(x,y+cellH); Underline (x,y+cellH-t),
\* (x+w,y+cellH-t),(x+w,y+cellH),(x,y+cellH).  With x=10, y=20, an 8 x 16
\* cell and ratio 0.2 these are {(10,20),(12,20),(12,36),(10,36)} and
\* {(10,34),(18,34),(18,36),(10,36)}.
C4_BeamUnderlineTarget ==
  LET x == OriginX
      y == OriginY
      t == ThicknessPx
      w == EffectiveW
      h == CellH
  IN /\ args.shape = "Beam" =>
          target = <<Pt(x, y), Pt(x + t, y), Pt(x + t, y + h), Pt(x, y + h)>>
     /\ args.shape = "Underline" =>
          target = <<Pt(x, y + h - t), Pt(x + w, y + h - t), Pt(x + w, y + h), Pt(x, y + h)>>
     /\ args = ExampleArgs("Beam") =>
          target = <<Pt(10, 20), Pt(12, 20), Pt(12, 36), Pt(10, 36)>>
     /\ args = ExampleArgs("Underline") =>
          target = <<Pt(10, 34), Pt(18, 34), Pt(18, 36), Pt(10, 36)>>

\* Witness of C4: the update of the spec's example has run for an underline
\* cursor, and the animator has moved toward its bottom-anchored bar.
C4_Witness ==
  /\ args = ExampleArgs("Underline")
  /\ OriginX = 10 /\ OriginY = 20 /\ ThicknessPx = 2
  /\ positions # before.positions

\* C5 as stated: for every other shape the quad is the beam formula with
\* width and height swapped, cellHeight wide and cellWidth high.
C5_Original ==
  args.shape \notin {"Beam", "Underline", "None"} =>
    target = <<Pt(OriginX, OriginY), Pt(OriginX + CellH, OriginY),
               Pt(OriginX + CellH, OriginY + CellW), Pt(OriginX, OriginY + CellW)>>

\* C5 amended: for every other shape the quad is the beam formula with the
\* (doubled when wide) cell width in the place of the thickness: the full
\* cell block, w wide and cellHeight high, anchored at the origin.
C5_BlockTarget ==
  args.shape \notin {"Beam", "Underline", "None"} =>
    target = <<Pt(OriginX, OriginY), Pt(OriginX + EffectiveW, OriginY),
               Pt(OriginX + EffectiveW, OriginY + CellH), Pt(OriginX, OriginY + CellH)>>

\* Witness of C5: an update for a wide block cursor has run.
C5_Witness ==
  /\ Updated
  /\ args.shape = "Block"
  /\ args.is_wide
  /\ positions # before.positions

\* C10: the quad handed to the renderer keeps the winding order top-left,
\* top-right, bottom-right, bottom-left.
C10_WindingOrder ==
  LET q == CursorQuad.points
  IN /\ F32Le(q[1].x, q[2].x)
     /\ F32Le(q[4].x, q[3].x)
     /\ F32Le(q[1].y, q[4].y)
     /\ F32Le(q[2].y, q[3].y)

\* The squared distance under which a corner counts as arrived: 2^-10, a
\* thirty-second of a pixel.
EpsSq == <<8388608, -33>>

\* C2: while update is called again and again with the same arguments, the
\* distance of every corner to its target strictly decreases on every call for
\* as long as it is above epsilon, and it ends up within epsilon.
C2_Converges ==
  /\ [][args' = args =>
          \A i \in Corners : F32Lt(EpsSq, DistSq(i)) => F32Lt(DistSq(i)', DistSq(i))]_vars
  /\ held ~> (\A i \in Corners : F32Le(DistSq(i), EpsSq))

\* Witness of C2: the resting cursor has arrived at a target away from the
\* origin, within epsilon at every corner.
C2_Witness ==
  /\ held
  /\ \A i \in Corners : F32Le(DistSq(i), EpsSq)
  /\ \A i \in Corners : F32Lt(F1, positions[i].x) /\ F32Lt(F1, positions[i].y)

ZeroDisplacement(i) == target[i] = before.positions[i]

DecayedVel(i) == F32Clamp(F32Mul(before.vels[i], F090), F02, F1)

\* C3 as stated: a corner that is exactly on its target when update is called
\* gets the velocity clamp(v0 * 0.90, 0.20, 1.00) and keeps its position.
C3_Original ==
  Updated =>
    \A i \in Corners :
      ZeroDisplacement(i) =>
        vels[i] = DecayedVel(i) /\ positions[i] = before.positions[i]

\* |q - p| <= 2^-22 * |p|; the difference of neighbouring f32 values and the
\* product by a power of two are exact.
Near(q, p) == F32Le(F32Abs(F32Sub(q, p)), F32Mul(F32Abs(p), <<8388608, -45>>))

\* C3 amended: a corner that is exactly on its target when update is called
\* gets the velocity clamp(v0 * 0.90, 0.20, 1.00), and each coordinate of its
\* position stays within 2^-22 of its value, relatively: the rounding of
\* p * (1 - v) + p * v.
C3_ZeroDisplacement ==
  Updated =>
    \A i \in Corners :
      ZeroDisplacement(i) =>
        /\ vels[i] = DecayedVel(i)
        /\ Near(positions[i].x, before.positions[i].x)
        /\ Near(positions[i].y, before.positions[i].y)

\* Witness of C3: update has run on a corner that sat exactly on a target
\* away from the origin.
C3_Witness ==
  /\ Updated
  /\ \E i \in Corners :
       /\ ZeroDisplacement(i)
       /\ before.positions[i].x # Zero
       /\ before.positions[i].y # Zero

\* The corner of quad q that vertex k of its six copies, and the vertex itself.
CornerOf(q, k) == drawn.quads[q].points[<<1, 2, 3, 1, 4, 3>>[k]]

VertexOf(q, k) == vertices[6 * (q - 1) + k]

QuadsDrawn == 1..Len(drawn.quads)

\* C6: after any sequence of draw calls the vertex list holds the 6 * N
\* vertices of the latest call's N quads and nothing else; vertex k of quad q
\* sits at 6q + k and is corner [0,1,2,0,3,2][k] of the quad mapped by
\* x' = x / (width / 2) - 1, y' = -y / (height / 2) + 1; in an 800 x 600
\* viewport pixel (0,0) maps to (-1,1) and pixel (800,600) to (1,-1).
C6_Triangulation ==
  LET hw == F32Div(drawn.size_info.width, F2)
      hh == F32Div(drawn.size_info.height, F2)
  IN drawn.called =>
       /\ Len(vertices) = 6 * Len(drawn.quads)
       /\ \A q \in QuadsDrawn : \A k \in 1..6 :
            /\ VertexOf(q, k).x = F32Sub(F32Div(CornerOf(q, k).x, hw), F1)
            /\ VertexOf(q, k).y = F32Add(F32Neg(F32Div(CornerOf(q, k).y, hh)), F1)
            /\ (drawn.size_info = SizeB /\ CornerOf(q, k) = Pt(0, 0)) =>
                 (VertexOf(q, k).x = F32Int(-1) /\ VertexOf(q, k).y = F32Int(1))
            /\ (drawn.size_info = SizeB /\ CornerOf(q, k) = Pt(800, 600)) =>
                 (VertexOf(q, k).x = F32Int(1) /\ VertexOf(q, k).y = F32Int(-1))

\* Witness of C6: a draw of two quads in the 800 x 600 viewport, the second
\* of them the full-window rectangle, has filled the vertex list.
C6_Witness ==
  /\ drawn.called
  /\ drawn.size_info = SizeB
  /\ Len(drawn.quads) = 2
  /\ drawn.quads[2] = BellQuad
  /\ Len(vertices) = 12

\* C7 as stated: the alpha byte of every vertex is round(alpha * 255), to
\* nearest, and the colour channels are copied.
C7_Original ==
  drawn.called =>
    \A q \in QuadsDrawn : \A k \in 1..6 :
      /\ VertexOf(q, k).a = IntOf(F32RoundInt(F32Mul(drawn.quads[q].alpha, F255)))
      /\ VertexOf(q, k).r = drawn.quads[q].color.r
      /\ VertexOf(q, k).g = drawn.quads[q].color.g
      /\ VertexOf(q, k).b = drawn.quads[q].color.b

\* C7 amended: the alpha byte of every vertex is the f32 product alpha * 255
\* truncated toward zero, so that 1.0 packs to 255, 0.0 to 0 and 0.5 to 127;
\* the colour channels are copied.
C7_AlphaTruncated ==
  drawn.called =>
    \A q \in QuadsDrawn : \A k \in 1..6 :
      /\ VertexOf(q, k).a = IntOf(F32Floor(F32Mul(drawn.quads[q].alpha, F255)))
      /\ drawn.quads[q].alpha = F1 => VertexOf(q, k).a = 255
      /\ drawn.quads[q].alpha = Zero => VertexOf(q, k).a = 0
      /\ drawn.quads[q].alpha = F05 => VertexOf(q, k).a = 127
      /\ VertexOf(q, k).r = drawn.quads[q].color.r
      /\ VertexOf(q, k).g = drawn.quads[q].color.g
      /\ VertexOf(q, k).b = drawn.quads[q].color.b

\* Witness of C7: a quad of alpha 0.5 has been packed.
C7_Witness ==
  /\ drawn.called
  /\ \E q \in QuadsDrawn : drawn.quads[q].alpha = F05 /\ VertexOf(q, 1).a < 128

CallsOf(name) == {i \in 1..Len(calls) : calls[i][1] = name}

\* C8: a draw call with an empty quad list leaves the vertex list empty and
\* makes no upload, no program activation, no uniform binding and no draw
\* call; a draw call with a non-empty list makes exactly one upload, of the
\* whole vertex list, and exactly one triangle-list draw call over all 6 * N
\* vertices, after the upload and after every uniform the shader exposes has
\* been bound.
C8_EmptyAndBatch ==
  drawn.called =>
    /\ drawn.quads = <<>> =>
         /\ vertices = <<>>
         /\ CallsOf("BufferData") = {}
         /\ CallsOf("UseProgram") = {}
         /\ CallsOf("Uniform1f") = {}
         /\ CallsOf("DrawArrays") = {}
    /\ drawn.quads # <<>> =>
         /\ Cardinality(CallsOf("BufferData")) = 1
         /\ Cardinality(CallsOf("DrawArrays")) = 1
         /\ {calls[i][2] : i \in CallsOf("Uniform1f")} = uniforms
         /\ \A d \in CallsOf("DrawArrays") :
              /\ calls[d] = <<"DrawArrays", "TRIANGLES", 0, 6 * Len(drawn.quads)>>
              /\ \A u \in CallsOf("Uniform1f") \cup CallsOf("BufferData") : u < d
              /\ \A b \in CallsOf("BufferData") : calls[b][4] = vertices

\* Witness of C8: a draw call with an empty list has run after construction
\* with a shader that exposes every slot.
C8_Witness ==
  /\ drawn.called
  /\ drawn.quads = <<>>
  /\ uniforms = UniformNames
  /\ calls # <<>>

\* C9: after a draw call, with an empty list as with a non-empty one, no
\* binding made by draw is still in place: vertex array, array buffer and
\* program are all 0.
C9_BindingsReset == drawn.called => gl = Unbound
====
